---- MODULE Spec2Model ----
(***************************************************************************)
(* CycleAnalyzer of chronobiology: the analysis window, the day mask, the   *)
(* cached activity bouts and the read-only queries, as a state machine.     *)
(* Time is counted in ticks; one calendar day is DayLen ticks and calendar  *)
(* days start at multiples of DayLen.                                       *)
(***************************************************************************)
EXTENDS Integers, Sequences, FiniteSets, TLC

\* ---- bounds of the model
DayLen == 2
MaxT == 4
MaxEvents == 3

\* ---- constructor defaults (signature of CycleAnalyzer), in ticks
DefaultStep == 1
DefaultMaxGap == 1
DefaultMinDuration == 0
DefaultMinCount == 2
DefaultThreshold == 1

\* Night boundaries are clock hours; '24' is the end of the day.
HoursPerDay == 24

\* The value of an optional argument that was not passed (Python None).
None == 0 - 1

VARIABLES
    db,                  \* the records of the database series DBQuery reads
    timeseries,          \* constructor argument: the raw activity instants
    req_start, req_stop, \* constructor arguments start and stop (None if not passed)
    night_arg,           \* constructor argument night, one list of boundaries per day
    start, stop, total_days,
    timestamps,          \* instants selected during initialisation
    mask, day_indices, activity, days,
    bouts, max_gap, min_duration, min_count,
    step, activity_threshold, night,
    last, ret            \* the last call (name, arguments) and what it returned

vars == <<db, timeseries, req_start, req_stop, night_arg, start, stop, total_days, timestamps,
          mask, day_indices, activity, days, bouts, max_gap, min_duration,
          min_count, step, activity_threshold, night, last, ret>>

\* The analyzer's attributes, without the record of the last call.
window == <<start, stop, total_days>>
defaults == <<step, max_gap, min_duration, min_count, activity_threshold>>
filtered == <<mask, day_indices, activity, days>>
inputs == <<db, timeseries, req_start, req_stop, night_arg, timestamps>>

\* ---- arithmetic helpers
Min(a, b) == IF a < b THEN a ELSE b
Max(a, b) == IF a > b THEN a ELSE b
CeilDiv(a, b) == (a + b - 1) \div b
FloorDay(t) == t - (t % DayLen)

RECURSIVE SumSeq(_)
SumSeq(s) == IF s = <<>> THEN 0 ELSE Head(s) + SumSeq(Tail(s))

\* ---- argument domains
Instants == 0..MaxT
Timeseries ==
    {s \in UNION {[1..k -> Instants] : k \in 1..MaxEvents} :
        \A i \in 1..(Len(s) - 1) : s[i] <= s[i + 1]}
StartArgs == {None, 1}
StopArgs == {None, 2 * DayLen}
\* MaxEvents + 1 is above every day's event count.
ThreshArgs == {0, 1, 2, MaxEvents + 1}
\* <<max_gap, min_duration, min_count>>; the constructor's are <<1, 0, 2>>.
BoutArgs == {<<1, 0, 1>>, <<2, 1, 1>>}
QueryBoutArgs == {<<2, 0, 1>>, <<1, 1, 2>>}
OptBoutArgs == {<<None, None, None>>, <<2, None, 1>>, <<None, 1, None>>}
RangeArgs == {<<None, None>>, <<1, 2 * DayLen>>}
DiscretizeArgs == {<<None, FALSE>>, <<None, TRUE>>, <<2, FALSE>>, <<2, TRUE>>}
\* <<method, step, bouts>>
StatisticArgs ==
    {<<"periodogram", None, FALSE>>, <<"interdaily_stability", 2, TRUE>>,
     <<"intradaily_variability", None, TRUE>>, <<"relative_amplitude", 2, FALSE>>,
     <<"activity_onset", 2, TRUE>>}
\* The default night ('18:00', '06:00'), in hours.
NightArg == <<18, 6>>

\* ---- day-frame (constructor)
WindowStart(ts, rs) == IF rs # None THEN rs ELSE FloorDay(ts[1])

ProvisionalStop(ts, re) ==
    IF re # None THEN re ELSE FloorDay(ts[Len(ts)]) + DayLen

\* Mutant of AdjustedStop: the requested stop is kept as it is.
AdjustedStopUnrounded(st, prov) == prov

\* Mutant of AdjustedStop: a day is added even when the span is whole days already.
AdjustedStopNextDay(st, prov) == st + ((prov - st) \div DayLen + 1) * DayLen

AdjustedStop(st, prov) == st + CeilDiv(prov - st, DayLen) * DayLen

TotalDays(st, sp) == (sp - st) \div DayLen

\* Mutant of Retained: instants are selected up to the adjusted stop.
RetainedToAdjustedStop(ts, st, prov) ==
    LET InWindow(t) == st <= t /\ t < st + CeilDiv(prov - st, DayLen) * DayLen
    IN  SelectSeq(ts, InWindow)

Retained(ts, st, prov) ==
    LET InWindow(t) == st <= t /\ t < prov
    IN  SelectSeq(ts, InWindow)

\* ---- night schedule
\* One night sequence is used for all days.
PerDay(shared, td) == [d \in 1..td |-> shared]

\* Mutant of AbsBoundary: a last boundary below the one before it stays on its day.
AbsBoundarySameDay(lists, d, k) == (d - 1) * HoursPerDay + lists[d][k]

\* Boundary k of day d in hours since the first day began: the last boundary of a
\* day's list lies on the next day when it is less than the boundary before it.
AbsBoundary(lists, d, k) ==
    LET v == lists[d][k]
        wraps == k = Len(lists[d]) /\ k > 1 /\ v < lists[d][k - 1]
    IN  (d - 1) * HoursPerDay + v + (IF wraps THEN HoursPerDay ELSE 0)

\* The boundaries of days d.. in order.
RECURSIVE Flatten(_, _)
Flatten(lists, d) ==
    IF d > Len(lists) THEN <<>>
    ELSE [k \in 1..Len(lists[d]) |-> AbsBoundary(lists, d, k)] \o Flatten(lists, d + 1)

\* Mutant of ValidNight: any number of boundaries is accepted.
ValidNightAnyCount(lists) == TRUE

\* The overall number of night boundaries should be even.
ValidNight(lists) == Len(Flatten(lists, 1)) % 2 = 0

\* After a night start boundary the next boundary is the night's end.
NightIntervals(lists) ==
    LET f == Flatten(lists, 1)
    IN  [p \in 1..(Len(f) \div 2) |-> <<f[2 * p - 1], f[2 * p]>>]

\* Mutant of Clip: the interval is stored from its start to its end, past midnight.
ClipStartOnly(iv, lo, hi) == <<Max(iv[1], lo) - lo, iv[2] - lo>>

\* The part of interval iv inside the day [lo, hi), as offsets from the day's start.
Clip(iv, lo, hi) == <<Max(iv[1], lo) - lo, Min(iv[2], hi) - lo>>

\* Per day, the parts of the night intervals that fall into it.
ResolveNight(lists, td) ==
    [d \in 1..td |->
        LET iv == NightIntervals(lists)
            lo == (d - 1) * HoursPerDay
            hi == d * HoursPerDay
            Touches(p) == Max(iv[p][1], lo) < Min(iv[p][2], hi)
            idx == SelectSeq([p \in 1..Len(iv) |-> p], Touches)
        IN  [k \in 1..Len(idx) |-> Clip(iv[idx[k]], lo, hi)]]

\* ---- day filter
DayOf(t, st) == (t - st) \div DayLen

DayCount(ts, st, d) ==
    Cardinality({i \in 1..Len(ts) :
        st + d * DayLen <= ts[i] /\ ts[i] < st + (d + 1) * DayLen})

\* Mutant of DayMask: a day with exactly th events is dropped.
DayMaskStrict(ts, st, td, th) == [d \in 1..td |-> DayCount(ts, st, d - 1) > th]

DayMask(ts, st, td, th) == [d \in 1..td |-> DayCount(ts, st, d - 1) >= th]

RECURSIVE DayIndicesFrom(_, _, _, _)
DayIndicesFrom(m, i, open, acc) ==
    IF i > Len(m)
    THEN IF open # None THEN Append(acc, <<open, Len(m)>>) ELSE acc
    ELSE IF m[i]
         THEN DayIndicesFrom(m, i + 1, IF open = None THEN i - 1 ELSE open, acc)
         ELSE DayIndicesFrom(m, i + 1, None,
                  IF open # None THEN Append(acc, <<open, i - 1>>) ELSE acc)

\* Mutant of DayIndices: a run that reaches the last day is never closed.
DayIndicesOpenTail(m) ==
    LET full == DayIndicesFrom(m, 1, None, <<>>)
    IN  IF m # <<>> /\ m[Len(m)] THEN SubSeq(full, 1, Len(full) - 1) ELSE full

DayIndices(m) == DayIndicesFrom(m, 1, None, <<>>)

\* Mutant of ApplyMask: the instants of filtered-out days are kept.
ApplyMaskKeepAll(ts, st, m) == ts

ApplyMask(ts, st, m) ==
    LET Kept(t) == m[DayOf(t, st) + 1]
    IN  SelectSeq(ts, Kept)

CountTrue(m) == Cardinality({d \in 1..Len(m) : m[d]})

\* ---- bout segmenter
\* Mutant of Splits: a gap equal to max_gap already separates two bouts.
SplitsAtMaxGap(gap, mg) == gap >= mg

\* Two consecutive instants belong to different bouts when their gap exceeds max_gap.
\* Mutant of Splits: any gap between two instants cuts, whatever max_gap is.
SplitsOnAnyGap(gap, mg) == gap > 0

Splits(gap, mg) == gap > mg

\* Mutant of Emitted: a group must have more than min_count instants.
EmittedAboveMinCount(count, duration, md, mc) == count > mc /\ duration >= md

\* Mutant of Emitted: a group spanning no time is never a bout.
EmittedIfLasting(count, duration, md, mc) ==
    count >= mc /\ duration >= md /\ duration > 0

\* A group of count instants spanning duration is kept as a bout.
Emitted(count, duration, md, mc) == count >= mc /\ duration >= md

RECURSIVE BoutScan(_, _, _, _, _, _, _)
BoutScan(act, i, g, acc, mg, md, mc) ==
    IF i > Len(act) THEN acc
    ELSE IF i = Len(act) \/ Splits(act[i + 1] - act[i], mg)
         THEN BoutScan(act, i + 1, i + 1,
                  IF Emitted(i - g + 1, act[i] - act[g], md, mc)
                  THEN Append(acc, <<act[g], act[i]>>) ELSE acc,
                  mg, md, mc)
         ELSE BoutScan(act, i + 1, g, acc, mg, md, mc)

ActivityBouts(act, mg, md, mc) == BoutScan(act, 1, 1, <<>>, mg, md, mc)

\* ---- construction
\* total_days of CycleAnalyzer(ts, start = rs, stop = re).
DaysOf(ts, rs, re) ==
    LET st == WindowStart(ts, rs)
    IN  TotalDays(st, AdjustedStop(st, ProvisionalStop(ts, re)))

\* The constructor raised InvalidNightSchedule: there is no analyzer, only the
\* arguments of the call and the error.
Raised(ts, rs, re, lists) ==
    /\ db = <<>>
    /\ timeseries = ts /\ req_start = rs /\ req_stop = re /\ night_arg = lists
    /\ start = None /\ stop = None /\ total_days = 0
    /\ timestamps = <<>> /\ mask = <<>> /\ day_indices = <<>>
    /\ activity = <<>> /\ days = 0 /\ bouts = <<>> /\ night = <<>>
    /\ step = None /\ max_gap = None /\ min_duration = None /\ min_count = None
    /\ activity_threshold = None
    /\ last = [op |-> "init", args |-> <<>>]
    /\ ret = <<"InvalidNightSchedule">>

\* The analyzer CycleAnalyzer(ts, start = rs, stop = re, night = lists) leaves behind.
Constructed(ts, rs, re, lists) ==
        LET st == WindowStart(ts, rs)
            prov == ProvisionalStop(ts, re)
            sp == AdjustedStop(st, prov)
            td == TotalDays(st, sp)
            kept == Retained(ts, st, prov)
            m == DayMask(kept, st, td, DefaultThreshold)
            act == ApplyMask(kept, st, m)
        IN  /\ prov > st
            /\ timeseries = ts /\ req_start = rs /\ req_stop = re
            /\ night_arg = lists
            /\ db = <<>>
            /\ start = st /\ stop = sp /\ total_days = td
            /\ timestamps = kept
            /\ mask = m
            /\ day_indices = DayIndices(m)
            /\ activity = act
            /\ days = CountTrue(m)
            /\ step = DefaultStep
            /\ max_gap = DefaultMaxGap
            /\ min_duration = DefaultMinDuration
            /\ min_count = DefaultMinCount
            /\ activity_threshold = DefaultThreshold
            /\ bouts = ActivityBouts(act, DefaultMaxGap, DefaultMinDuration,
                                     DefaultMinCount)
            /\ night = ResolveNight(lists, td)
            /\ last = [op |-> "init", args |-> <<>>]
            /\ ret = <<>>

\* CycleAnalyzer(ts, start = rs, stop = re, night = lists): an analyzer, or the error.
CycleAnalyzer(ts, rs, re, lists) ==
    IF ValidNight(lists) THEN Constructed(ts, rs, re, lists)
    ELSE Raised(ts, rs, re, lists)

Init ==
    \E ts \in Timeseries, rs \in StartArgs, re \in StopArgs :
        CycleAnalyzer(ts, rs, re, PerDay(NightArg, DaysOf(ts, rs, re)))

\* ---- mutating methods

\* A call that raises: the error is all it leaves, every attribute stays as it was.
Raise(name, args, error) ==
    /\ last' = [op |-> name, args |-> args]
    /\ ret' = <<error>>
    /\ UNCHANGED <<inputs, window, filtered, defaults, bouts, night>>

\* Mutant of ValidBoutArgs: a min_count of 0 is let through.
ValidBoutArgsFromZero(mg, md, mc) == mg >= 0 /\ md >= 0 /\ mc >= 0

\* The thresholds a bout computation accepts.
ValidBoutArgs(mg, md, mc) == mg >= 0 /\ md >= 0 /\ mc >= 1

\* The thresholds filter_inactive accepts.
ValidThreshold(th) == th >= 0

\* Mutant of DayCountSource: days are counted over the already narrowed activity.
DayCountSourceNarrowed == activity

\* The instants whose days filter_inactive counts: those selected at initialisation,
\* whether or not an earlier filter dropped their day.
DayCountSource == timestamps

\* Mutant of BoutsAfterFilter: re-filtering recomputes the cached bouts.
BoutsRecomputedOnFilter(act) == ActivityBouts(act, max_gap, min_duration, min_count)

\* The cached bouts once filter_inactive has narrowed the activity to act: untouched.
BoutsAfterFilter(act) == bouts

\* Mutant of filter_inactive: the threshold is added to the remembered one.
filter_inactive_accumulating(th) ==
    LET t2 == activity_threshold + th
        m == DayMask(DayCountSource, start, total_days, t2)
        act == ApplyMask(timestamps, start, m)
    IN  /\ mask' = m
        /\ day_indices' = DayIndices(m)
        /\ activity' = act
        /\ days' = CountTrue(m)
        /\ bouts' = BoutsAfterFilter(act)
        /\ activity_threshold' = t2
        /\ last' = [op |-> "filter_inactive", args |-> <<th>>]
        /\ ret' = <<>>
        /\ UNCHANGED <<inputs, window, step, max_gap, min_duration, min_count, night>>

filter_inactive(th) ==
    IF ~ValidThreshold(th) THEN Raise("filter_inactive", <<th>>, "InvalidParameter")
    ELSE
    LET m == DayMask(DayCountSource, start, total_days, th)
        act == ApplyMask(timestamps, start, m)
    IN  /\ mask' = m
        /\ day_indices' = DayIndices(m)
        /\ activity' = act
        /\ days' = CountTrue(m)
        /\ bouts' = BoutsAfterFilter(act)
        /\ last' = [op |-> "filter_inactive", args |-> <<th>>]
        /\ ret' = <<>>
        /\ UNCHANGED <<inputs, window, defaults, night>>

\* Mutant of update_bouts: min_count is not remembered.
update_bouts_forgetting(mg, md, mc) ==
    /\ bouts' = ActivityBouts(activity, mg, md, mc)
    /\ max_gap' = mg
    /\ min_duration' = md
    /\ last' = [op |-> "update_bouts", args |-> <<mg, md, mc>>]
    /\ ret' = <<>>
    /\ UNCHANGED <<inputs, window, filtered, step, min_count, activity_threshold, night>>

\* Mutant of update_bouts: max_gap is added to the remembered one.
update_bouts_accumulating(mg, md, mc) ==
    /\ bouts' = ActivityBouts(activity, max_gap + mg, md, mc)
    /\ max_gap' = max_gap + mg
    /\ min_duration' = md
    /\ min_count' = mc
    /\ last' = [op |-> "update_bouts", args |-> <<mg, md, mc>>]
    /\ ret' = <<>>
    /\ UNCHANGED <<inputs, window, filtered, step, activity_threshold, night>>

update_bouts(mg, md, mc) ==
    IF ~ValidBoutArgs(mg, md, mc)
    THEN Raise("update_bouts", <<mg, md, mc>>, "InvalidParameter")
    ELSE
    /\ bouts' = ActivityBouts(activity, mg, md, mc)
    /\ max_gap' = mg
    /\ min_duration' = md
    /\ min_count' = mc
    /\ last' = [op |-> "update_bouts", args |-> <<mg, md, mc>>]
    /\ ret' = <<>>
    /\ UNCHANGED <<inputs, window, filtered, step, activity_threshold, night>>

\* ---- discretizer
NBins(stp) == CeilDiv(stop - start, stp)
\* Mutant of Edge: the last edge is a whole step after the one before it.
EdgePadded(k, stp) == start + k * stp

Edge(k, stp) == Min(start + k * stp, stop)

\* Mutant of EventCount: a bin excludes its left edge and includes its right edge.
EventCountRightClosed(act, lo, hi) ==
    Cardinality({j \in 1..Len(act) : lo < act[j] /\ act[j] <= hi})

EventCount(act, lo, hi) ==
    Cardinality({j \in 1..Len(act) : lo <= act[j] /\ act[j] < hi})

\* Mutant of Overlap: a bout counts in full in the bin where it starts.
OverlapWhereItStarts(b, lo, hi) == IF lo <= b[1] /\ b[1] < hi THEN b[2] - b[1] ELSE 0

\* Mutant of Overlap: a bout counts in full in every bin it reaches into.
OverlapUnclipped(b, lo, hi) == IF b[1] < hi /\ b[2] > lo THEN b[2] - b[1] ELSE 0

Overlap(b, lo, hi) == Max(0, Min(b[2], hi) - Max(b[1], lo))

RECURSIVE OverlapSum(_, _, _)
OverlapSum(bs, lo, hi) ==
    IF bs = <<>> THEN 0
    ELSE Overlap(Head(bs), lo, hi) + OverlapSum(Tail(bs), lo, hi)

\* One entry per bin: <<bin start, value>>. For events the value is the count;
\* for bouts it is <<overlap, width>>, the coverage being overlap / width.
Discretize(stp, b) ==
    [i \in 1..NBins(stp) |->
        LET lo == Edge(i - 1, stp)
            hi == Edge(i, stp)
        IN  IF b THEN <<lo, <<OverlapSum(bouts, lo, hi), hi - lo>> >>
            ELSE <<lo, EventCount(activity, lo, hi)>>]

EffectiveStep(stp) == IF stp = None THEN step ELSE stp

\* Mutant of ValidDays: every day of the window, valid or not.
AllDays == [d \in 1..total_days |-> d]

\* The days of the window (from 1) that the mask keeps, in order.
ValidDays ==
    LET Valid(d) == mask[d]
    IN  SelectSeq([d \in 1..total_days |-> d], Valid)

\* Per valid day, the bins of a discretized signal that start in that day.
DayRows(sig) ==
    LET Of(d) == LET InDay(e) == DayOf(e[1], start) = d - 1
                 IN  SelectSeq(sig, InDay)
        ds == ValidDays
    IN  [k \in 1..Len(ds) |-> Of(ds[k])]

\* The statistics that return one value per valid day.
PerDayStatistics == {"intradaily_variability", "relative_amplitude", "activity_onset"}

\* The bins of the valid (masked-in) days: what every per-day statistic consumes.
ValidRows(sig) ==
    LET Valid(e) == mask[DayOf(e[1], start) + 1]
    IN  SelectSeq(sig, Valid)

\* ---- queries
\* Mutant of SelectDates: the stop boundary is inclusive.
SelectDatesClosedStop(lo, hi, b) ==
    LET InRange(t) == (lo = None \/ t >= lo) /\ (hi = None \/ t <= hi)
        BoutInRange(x) == InRange(x[1]) /\ mask[DayOf(x[1], start) + 1]
    IN  IF b THEN SelectSeq(bouts, BoutInRange) ELSE SelectSeq(activity, InRange)

SelectDates(lo, hi, b) ==
    LET InRange(t) == (lo = None \/ t >= lo) /\ (hi = None \/ t < hi)
        BoutInRange(x) == InRange(x[1]) /\ mask[DayOf(x[1], start) + 1]
    IN  IF b THEN SelectSeq(bouts, BoutInRange) ELSE SelectSeq(activity, InRange)

InNight(t) ==
    LET d == DayOf(t, start) + 1
        off == ((t % DayLen) * HoursPerDay) \div DayLen
    IN  \E k \in 1..Len(night[d]) : night[d][k][1] <= off /\ off < night[d][k][2]

\* Per valid day: <<events in the light phase, events of the day>>.
LightActivity ==
    LET Day(d) ==
            LET InDay(t) == DayOf(t, start) = d - 1
                Light(t) == InDay(t) /\ ~InNight(t)
            IN  <<Len(SelectSeq(activity, Light)), Len(SelectSeq(activity, InDay))>>
        ds == ValidDays
    IN  [k \in 1..Len(ds) |-> Day(ds[k])]

\* Per valid day: <<number of bouts starting in the day, their summed duration>>.
DailyBouts(mg, md, mc) ==
    LET bs == ActivityBouts(activity,
                  IF mg = None THEN max_gap ELSE mg,
                  IF md = None THEN min_duration ELSE md,
                  IF mc = None THEN min_count ELSE mc)
        Day(d) ==
            LET InDay(x) == DayOf(x[1], start) = d - 1
                mine == SelectSeq(bs, InDay)
            IN  <<Len(mine), SumSeq([k \in 1..Len(mine) |-> mine[k][2] - mine[k][1]])>>
        ds == ValidDays
    IN  [k \in 1..Len(ds) |-> Day(ds[k])]

analyzer == <<inputs, window, filtered, defaults, bouts, night>>

\* Mutant of Query: a query brings the cached bouts up to date with the activity.
QueryRefreshingBouts(name, args, result) ==
    /\ last' = [op |-> name, args |-> args]
    /\ ret' = result
    /\ bouts' = ActivityBouts(activity, max_gap, min_duration, min_count)
    /\ UNCHANGED <<inputs, window, filtered, defaults, night>>

\* A read-only method: it returns its result and leaves the analyzer as it is.
Query(name, args, result) ==
    /\ last' = [op |-> name, args |-> args]
    /\ ret' = result
    /\ UNCHANGED analyzer

\* Mutant of activity_bouts: the computed bouts are also stored as the cached bouts.
activity_bouts_caching(mg, md, mc) ==
    /\ last' = [op |-> "activity_bouts", args |-> <<mg, md, mc>>]
    /\ ret' = ActivityBouts(activity, mg, md, mc)
    /\ bouts' = ActivityBouts(activity, mg, md, mc)
    /\ UNCHANGED <<inputs, window, filtered, defaults, night>>

activity_bouts(mg, md, mc) ==
    IF ~ValidBoutArgs(mg, md, mc)
    THEN Raise("activity_bouts", <<mg, md, mc>>, "InvalidParameter")
    ELSE Query("activity_bouts", <<mg, md, mc>>, ActivityBouts(activity, mg, md, mc))

select_dates(lo, hi, b) ==
    Query("select_dates", <<lo, hi, b>>, SelectDates(lo, hi, b))

discretize(stp, b) ==
    Query("discretize", <<stp, b>>, Discretize(EffectiveStep(stp), b))

light_activity(b) == Query("light_activity", <<b>>, LightActivity)

daily_bouts(mg, md, mc) ==
    Query("daily_bouts", <<mg, md, mc>>, DailyBouts(mg, md, mc))

\* periodogram, interdaily_stability, intradaily_variability, relative_amplitude and
\* activity_onset: each discretizes with its step and bouts flag and computes its
\* number(s) from the bins of the valid days, which is what ret records: day by day
\* for the statistics with one value per valid day, in one row for the others.
statistic(name, stp, b) ==
    Query(name, <<stp, b>>,
          IF name \in PerDayStatistics
          THEN DayRows(Discretize(EffectiveStep(stp), b))
          ELSE ValidRows(Discretize(EffectiveStep(stp), b)))

Next ==
    \/ \E th \in ThreshArgs : filter_inactive(th)
    \/ \E a \in BoutArgs : update_bouts(a[1], a[2], a[3])

Spec == Init /\ [][Next]_vars

NextQ ==
    \/ \E th \in ThreshArgs : filter_inactive(th)
    \/ \E a \in BoutArgs : update_bouts(a[1], a[2], a[3])
    \/ \E a \in QueryBoutArgs : activity_bouts(a[1], a[2], a[3])
    \/ \E r \in RangeArgs, b \in BOOLEAN : select_dates(r[1], r[2], b)
    \/ \E a \in DiscretizeArgs : discretize(a[1], a[2])
    \/ \E b \in BOOLEAN : light_activity(b)
    \/ \E a \in OptBoutArgs : daily_bouts(a[1], a[2], a[3])
    \/ \E a \in StatisticArgs : statistic(a[1], a[2], a[3])

\* Construction with the default start: the queries are exercised on these analyzers.
InitQ ==
    \E ts \in Timeseries, re \in StopArgs :
        CycleAnalyzer(ts, None, re, PerDay(NightArg, DaysOf(ts, None, re)))

SpecQ == InitQ /\ [][NextQ]_vars

\* ---- discretize with steps that do and do not divide the window
BinArgs == {None, 2, 3} \X BOOLEAN

NextB ==
    \/ \E th \in ThreshArgs : filter_inactive(th)
    \/ \E a \in BoutArgs : update_bouts(a[1], a[2], a[3])
    \/ \E a \in BinArgs : discretize(a[1], a[2])

SpecB == InitQ /\ [][NextB]_vars

\* ---- interdaily stability and intradaily variability over event counts, as exact
\* ratios <<numerator, denominator>>; a zero denominator is a division 0 / 0
StepArgs == {None, DayLen}

\* The values of a sequence of bins <<bin start, count>>.
Counts(rows) == [i \in 1..Len(rows) |-> rows[i][2]]

SumSq(q) == SumSeq([i \in 1..Len(q) |-> q[i] * q[i]])

\* Len(x)^2 times the sum of the squared deviations of x from its mean.
Deviation(x) ==
    LET n == Len(x)
        S == SumSeq(x)
    IN  SumSq([i \in 1..n |-> n * x[i] - S])

\* Variance of the daily pattern (the mean of every bin position over the valid
\* days) over the variance of all bins; rows holds the bins of one valid day each.
InterdailyStability(rows) ==
    IF rows = <<>> THEN <<0, 0>>
    ELSE LET D == Len(rows)
             p == Len(rows[1])
             n == D * p
             x == [i \in 1..n |-> rows[((i - 1) \div p) + 1][((i - 1) % p) + 1][2]]
             S == SumSeq(x)
             Pattern(h) == SumSeq([d \in 1..D |-> rows[d][h][2]])
         IN  <<n * SumSq([h \in 1..p |-> n * Pattern(h) - D * S]),
               D * D * p * Deviation(x)>>

\* Mean squared difference of successive bins over the variance of the bins.
IntradailyVariability(x) ==
    LET n == Len(x)
    IN  <<n * n * n * SumSq([i \in 1..(n - 1) |-> x[i + 1] - x[i]]),
          (n - 1) * Deviation(x)>>

interdaily_stability(stp) ==
    Query("interdaily_stability", <<stp, FALSE>>,
          InterdailyStability(DayRows(Discretize(EffectiveStep(stp), FALSE))))

\* Returns <<daily, total>>: one ratio per valid day and the ratio over all of them.
intradaily_variability(stp) ==
    LET sig == Discretize(EffectiveStep(stp), FALSE)
        rows == DayRows(sig)
    IN  Query("intradaily_variability", <<stp, FALSE>>,
              <<[k \in 1..Len(rows) |-> IntradailyVariability(Counts(rows[k]))],
                IntradailyVariability(Counts(ValidRows(sig)))>>)

NextS ==
    \/ \E th \in ThreshArgs : filter_inactive(th)
    \/ \E stp \in StepArgs : interdaily_stability(stp)
    \/ \E stp \in StepArgs : intradaily_variability(stp)

SpecS == InitQ /\ [][NextS]_vars

\* ---- parameter validation: the mutating methods and activity_bouts, called with
\* acceptable and with unacceptable arguments
InvalidThreshArgs == {-1}
InvalidBoutArgs == {<<-1, 0, 2>>, <<1, -1, 2>>, <<1, 0, 0>>}

NextV ==
    \/ \E th \in ThreshArgs \cup InvalidThreshArgs : filter_inactive(th)
    \/ \E a \in BoutArgs \cup InvalidBoutArgs : update_bouts(a[1], a[2], a[3])
    \/ \E a \in QueryBoutArgs \cup InvalidBoutArgs : activity_bouts(a[1], a[2], a[3])

SpecV == Init /\ [][NextV]_vars

\* ---- the worked examples: analyzers built from the examples' events
\* Clock time h:m in ticks of five minutes (the bout example).
FiveMinutes(h, m) == (60 * h + m) \div 5
\* Clock time m:s in ticks of thirty seconds (the discretizer example).
HalfMinutes(m, s) == (60 * m + s) \div 30

\* Events at 01:30, 01:45 and 03:00.
BoutExample ==
    [ts |-> <<FiveMinutes(1, 30), FiveMinutes(1, 45), FiveMinutes(3, 0)>>,
     start |-> None, stop |-> None]

\* Events a minute or less apart from 01:30 to 03:00, from 04:30 to 06:00 and from
\* 16:00 to 27:00, in a window from 00:00 to 30:00.
CoverageExample ==
    [ts |-> <<HalfMinutes(1, 30), HalfMinutes(2, 30), HalfMinutes(3, 0),
              HalfMinutes(4, 30), HalfMinutes(5, 30), HalfMinutes(6, 0)>>
            \o [i \in 1..12 |-> HalfMinutes(15 + i, 0)],
     start |-> 0, stop |-> HalfMinutes(30, 0)]

Examples == {BoutExample, CoverageExample}
ExampleBoutArgs ==
    {FiveMinutes(0, 20), FiveMinutes(1, 15), HalfMinutes(1, 0)}
        \X {DefaultMinDuration} \X {1, DefaultMinCount}
ExampleDiscretizeArgs == {None, HalfMinutes(5, 0)} \X BOOLEAN

InitE ==
    \E e \in Examples :
        CycleAnalyzer(e.ts, e.start, e.stop,
                      PerDay(NightArg, DaysOf(e.ts, e.start, e.stop)))

NextE ==
    \/ \E a \in ExampleBoutArgs : update_bouts(a[1], a[2], a[3])
    \/ \E a \in ExampleBoutArgs : activity_bouts(a[1], a[2], a[3])
    \/ \E a \in ExampleDiscretizeArgs : discretize(a[1], a[2])

SpecE == InitE /\ [][NextE]_vars

\* ---- night schedules: analyzers built with shared and per-day night arguments
\* Timeseries spanning one, two and three days.
NightSeries == {<<0>>, <<1, DayLen>>, <<0, 1, 2 * DayLen>>}
SharedNights == {<<18, 6>>, <<6, 18>>, <<22, 4>>, <<0, 6, 18, 24>>}
DayLists == {<<22>>, <<4, 20>>, <<4, 18, 24>>, <<18, 6>>, <<4>>}
PerDayNights(td) == [1..td -> DayLists]

\* The constructor raised: there is no analyzer to call a method on.
NoAnalyzer == last.op = "init" /\ ret = <<"InvalidNightSchedule">>

InitN ==
    \E ts \in NightSeries :
        \/ \E sh \in SharedNights :
               CycleAnalyzer(ts, None, None, PerDay(sh, DaysOf(ts, None, None)))
        \/ \E lists \in PerDayNights(DaysOf(ts, None, None)) :
               CycleAnalyzer(ts, None, None, lists)

NextN ==
    \/ \E th \in {0, 2} : ~NoAnalyzer /\ filter_inactive(th)
    \/ \E b \in BOOLEAN : ~NoAnalyzer /\ light_activity(b)

SpecN == InitN /\ [][NextN]_vars

\* ---- DBQuery: reading records of a series
\* A series holds records in time order; each has a field 'value' and a tag 'key1'.
\* The value marks the record's position so that columns can be told apart.
Series ==
    {[i \in 1..Len(ts) |->
         [time |-> ts[i], value |-> 10 * i,
          key1 |-> IF i % 2 = 1 THEN "foo" ELSE "bar"]] : ts \in Timeseries}
FieldArgs == {{"value"}, {"value", "key1"}}
TimeArgs == {None, 1, DayLen}

\* Mutant of TimeSelected: a record at the stop time is still selected.
TimeSelectedToStop(t, lo, hi) == (lo = None \/ t >= lo) /\ (hi = None \/ t <= hi)

\* WHERE time >= start AND time < stop, a bound of None leaving its side open.
TimeSelected(t, lo, hi) == (lo = None \/ t >= lo) /\ (hi = None \/ t < hi)

\* The dictionary get_data returns: the times and each requested field of the selected
\* records, one array per name.
GetData(records, fields, lo, hi) ==
    LET Sel(r) == TimeSelected(r.time, lo, hi)
        rows == SelectSeq(records, Sel)
    IN  [name \in {"time"} \cup fields |-> [k \in 1..Len(rows) |-> rows[k][name]]]

\* No CycleAnalyzer has been made; a DBQuery is connected to the series tb.
Connected(tb) ==
    /\ db = tb
    /\ timeseries = <<>> /\ req_start = None /\ req_stop = None /\ night_arg = <<>>
    /\ start = None /\ stop = None /\ total_days = 0
    /\ timestamps = <<>> /\ mask = <<>> /\ day_indices = <<>>
    /\ activity = <<>> /\ days = 0 /\ bouts = <<>> /\ night = <<>>
    /\ step = None /\ max_gap = None /\ min_duration = None /\ min_count = None
    /\ activity_threshold = None
    /\ last = [op |-> "DBQuery", args |-> <<>>]
    /\ ret = <<>>

get_data(fields, lo, hi) ==
    /\ last' = [op |-> "get_data", args |-> <<fields, lo, hi>>]
    /\ ret' = GetData(db, fields, lo, hi)
    /\ UNCHANGED <<inputs, window, filtered, defaults, bouts, night>>

InitD == \E tb \in Series : Connected(tb)

NextD == \E f \in FieldArgs, lo \in TimeArgs, hi \in TimeArgs : get_data(f, lo, hi)

SpecD == InitD /\ [][NextD]_vars

\* ======================================================================
\* Properties
\* ======================================================================

\* Number of entries of sequence q that satisfy nothing but being the value v.
Occurrences(q, v) == Cardinality({i \in 1..Len(q) : q[i] = v})

\* The day of the window that holds instant t, by search rather than by division.
DayHolding(t) ==
    CHOOSE d \in 0..(total_days - 1) :
        start + d * DayLen <= t /\ t < start + (d + 1) * DayLen

\* Number of selected instants in day d of the window.
EventsInDay(d) ==
    LET InDay(t) == start + d * DayLen <= t /\ t < start + (d + 1) * DayLen
    IN  Len(SelectSeq(timestamps, InDay))

\* C1: in every state reached from construction by filter_inactive and update_bouts
\* calls, stop - start is a whole number of days and total_days is that number.
C1_WholeDays ==
    /\ \E k \in 0..(MaxT + DayLen) : stop - start = k * DayLen /\ total_days = k
    /\ stop >= start

\* C1 witness: a requested stop was increased, and both mutating methods have run.
C1_Witness ==
    /\ req_stop # None /\ stop > req_stop
    /\ last.op = "update_bouts" /\ mask # DayMask(timestamps, start, total_days, 1)

\* C2: with explicit start and stop S and instants of the timeseries in
\* [S, adjusted stop), every instant of activity lies in [start, S).
C2_NothingPastRequestedStop ==
    (/\ req_start # None /\ req_stop # None
     /\ \E i \in 1..Len(timeseries) :
            req_stop <= timeseries[i] /\ timeseries[i] < stop)
    => \A j \in 1..Len(activity) : start <= activity[j] /\ activity[j] < req_stop

\* C2 witness: such an analyzer after the threshold was lowered to 0, with activity.
C2_Witness ==
    /\ req_start # None /\ req_stop # None
    /\ \E i \in 1..Len(timeseries) :
           req_stop <= timeseries[i] /\ timeseries[i] < stop
    /\ last.op = "filter_inactive" /\ last.args[1] = 0
    /\ activity # <<>>

\* C3: after filter_inactive(threshold) the mask has total_days entries and day d is
\* kept exactly when it holds at least threshold selected instants.
C3_MaskIsCountAtLeastThreshold ==
    last.op = "filter_inactive" =>
        /\ Len(mask) = total_days
        /\ \A d \in 0..(total_days - 1) :
               mask[d + 1] <=> (EventsInDay(d) >= last.args[1])

\* C3 witness: a day with exactly threshold events is kept and a day with fewer is not.
C3_Witness ==
    /\ last.op = "filter_inactive" /\ last.args[1] >= 1
    /\ \E d \in 0..(total_days - 1) : EventsInDay(d) = last.args[1] /\ mask[d + 1]
    /\ \E d \in 0..(total_days - 1) : EventsInDay(d) < last.args[1] /\ ~mask[d + 1]

\* What one filter_inactive(th) call yields on the freshly constructed analyzer.
FreshFilter(th) ==
    LET st == WindowStart(timeseries, req_start)
        prov == ProvisionalStop(timeseries, req_stop)
        kept == Retained(timeseries, st, prov)
        m == DayMask(kept, st, TotalDays(st, AdjustedStop(st, prov)), th)
    IN  <<m, DayIndices(m), ApplyMask(kept, st, m)>>

\* C4: after any sequence of calls ending in filter_inactive(th), mask, day_indices
\* and activity are those of a single filter_inactive(th) on the fresh analyzer.
C4_LastFilterSupersedes ==
    last.op = "filter_inactive" =>
        <<mask, day_indices, activity>> = FreshFilter(last.args[1])

\* C4 witness: filter_inactive(1) brought instants back after a higher threshold had
\* emptied the activity. The cached bouts show the history: with min_count 1 and
\* min_duration 0 every non-empty activity has a bout, so bouts are empty only if
\* update_bouts ran while the activity was empty.
C4_Witness ==
    /\ last.op = "filter_inactive" /\ last.args[1] = 1
    /\ activity # <<>>
    /\ min_count = 1 /\ min_duration = 0 /\ bouts = <<>>

\* C5: day_indices lists exactly the maximal runs of True in mask, in order.
C5_DayIndicesAreMaximalRuns ==
    /\ \A k \in 1..Len(day_indices) :
           LET s == day_indices[k][1]
               e == day_indices[k][2]
           IN  /\ 0 <= s /\ s < e /\ e <= Len(mask)
               /\ \A d \in s..(e - 1) : mask[d + 1]
               /\ s = 0 \/ ~mask[s]
               /\ e = Len(mask) \/ ~mask[e + 1]
    /\ \A k \in 1..(Len(day_indices) - 1) : day_indices[k][2] < day_indices[k + 1][1]
    /\ \A d \in 0..(Len(mask) - 1) :
           mask[d + 1] =>
               \E k \in 1..Len(day_indices) :
                   day_indices[k][1] <= d /\ d < day_indices[k][2]

\* C5 witness: a re-filter left two separate runs of valid days.
C5_Witness == last.op = "filter_inactive" /\ Len(day_indices) >= 2

\* C6: activity is the selected instants of the kept days, in non-decreasing order,
\* and days is the number of True entries of mask.
C6_ActivityIsMaskedTimestamps ==
    /\ \A j \in 1..(Len(activity) - 1) : activity[j] <= activity[j + 1]
    /\ \A t \in Instants :
           Occurrences(activity, t) =
               IF Occurrences(timestamps, t) > 0 /\ mask[DayHolding(t) + 1]
               THEN Occurrences(timestamps, t) ELSE 0
    /\ days = SumSeq([d \in 1..Len(mask) |-> IF mask[d] THEN 1 ELSE 0])

\* C6 witness: a re-filter dropped the instants of one day and kept those of another.
C6_Witness ==
    /\ last.op = "filter_inactive"
    /\ activity # <<>> /\ Len(activity) < Len(timestamps)

\* The remembered bout thresholds.
bout_defaults == <<max_gap, min_duration, min_count>>

\* The methods that compute statistics or select data.
StatisticOps ==
    {"select_dates", "discretize", "periodogram", "light_activity",
     "interdaily_stability", "intradaily_variability", "relative_amplitude",
     "daily_bouts", "activity_onset"}

\* C7: a statistic or selection method, whatever overrides it is given, changes
\* nothing of the analyzer: mask, day_indices, activity, days, cached bouts, window,
\* night schedule, default parameters.
C7_StatisticsChangeNothing ==
    [][last'.op \in StatisticOps =>
          UNCHANGED <<timestamps, mask, day_indices, activity, days, bouts, start, stop,
                      total_days, night, step, max_gap, min_duration, min_count,
                      activity_threshold>>]_vars

\* C7 witness: daily_bouts ran with explicit thresholds that gave another result than
\* the remembered ones would, and the remembered ones are still the old ones.
C7_Witness ==
    /\ last.op = "daily_bouts" /\ last.args = <<2, None, 1>>
    /\ ret # DailyBouts(None, None, None)
    /\ max_gap # 2 /\ min_count # 1

\* C8: activity_bouts returns the bouts of the current activity for its arguments and
\* changes neither the cached bouts nor the remembered thresholds.
C8_ActivityBoutsOnlyReturns ==
    [][last'.op = "activity_bouts" =>
          /\ ret' = ActivityBouts(activity, last'.args[1], last'.args[2], last'.args[3])
          /\ bouts' = bouts
          /\ bout_defaults' = bout_defaults]_vars

\* C8 witness: activity_bouts returned bouts that differ from the cached ones, for
\* arguments that differ from the remembered ones.
C8_Witness ==
    /\ last.op = "activity_bouts"
    /\ ret # <<>> /\ ret # bouts
    /\ last.args # bout_defaults

\* An argument, or the remembered value when it is None.
OrDefault(arg, default) == IF arg = None THEN default ELSE arg

\* C9: update_bouts stores activity_bouts of its arguments on the current activity and
\* remembers the arguments; the remembered values are the constructor's until then and
\* change in no other call; daily_bouts uses them for every argument passed as None.
C9_UpdateBoutsRemembers ==
    /\ [](last.op = "init" =>
            bout_defaults = <<DefaultMaxGap, DefaultMinDuration, DefaultMinCount>>)
    /\ [](last.op = "update_bouts" =>
            /\ bouts = ActivityBouts(activity, last.args[1], last.args[2], last.args[3])
            /\ bout_defaults = last.args)
    /\ [][/\ bout_defaults' # bout_defaults => last'.op = "update_bouts"
          /\ last'.op = "daily_bouts" =>
                 ret' = DailyBouts(OrDefault(last'.args[1], max_gap),
                                   OrDefault(last'.args[2], min_duration),
                                   OrDefault(last'.args[3], min_count))]_vars

\* C9 witness: daily_bouts ran with None for every threshold after update_bouts had
\* changed all three remembered values, and the cached bouts are those of that call.
C9_Witness ==
    /\ last.op = "daily_bouts" /\ last.args = <<None, None, None>>
    /\ bout_defaults = <<2, 1, 1>>
    /\ bouts # <<>>
    /\ ret # <<>>

\* C10: filter_inactive leaves the window, the night schedule, the default parameters
\* and the cached bouts as they are, and the cached bouts change in update_bouts only.
C10_FilterTouchesOnlyTheMask ==
    [][/\ last'.op = "filter_inactive" =>
              UNCHANGED <<timestamps, start, stop, total_days, night, step, max_gap,
                          min_duration, min_count, activity_threshold, bouts>>
       /\ bouts' # bouts => last'.op = "update_bouts"]_vars

\* C10 witness: after a re-filter the cached bouts are no longer those of the current
\* activity under the remembered thresholds.
C10_Witness ==
    /\ last.op = "filter_inactive"
    /\ bouts # <<>>
    /\ bouts # ActivityBouts(activity, max_gap, min_duration, min_count)

\* The call whose result is a list of bouts, and that list: activity_bouts returns it,
\* update_bouts stores it.
SegmenterRan == last.op \in {"activity_bouts", "update_bouts"}
Segmented == IF last.op = "update_bouts" THEN bouts ELSE ret

\* Positions i after which the activity is cut for max_gap mg.
Cuts(mg) == {i \in 1..(Len(activity) - 1) : activity[i + 1] - activity[i] > mg}

\* The groups of the activity for max_gap mg as pairs of positions <<first, last>>:
\* no cut inside, a cut (or the end of the activity) on either side.
Groups(mg) ==
    {g \in (1..Len(activity)) \X (1..Len(activity)) :
        /\ g[1] <= g[2]
        /\ \A i \in g[1]..(g[2] - 1) : i \notin Cuts(mg)
        /\ (g[1] = 1 \/ (g[1] - 1) \in Cuts(mg))
        /\ (g[2] = Len(activity) \/ g[2] \in Cuts(mg))}

\* C11: the bouts of a call are groups of consecutive instants whose gaps are all at
\* most max_gap, cut wherever a gap exceeds max_gap; a bout is [first, last] of its
\* group (zero-width for one instant), and when the thresholds reject nothing
\* (min_count <= 1, min_duration = 0) every group is a bout, in order.
C11_GroupsByInclusiveGap ==
    SegmenterRan =>
        LET mg == last.args[1]
            AsBout(g) == <<activity[g[1]], activity[g[2]]>>
            Rank(g) == 1 + Cardinality({c \in Cuts(mg) : c < g[1]})
        IN  /\ \A k \in 1..Len(Segmented) :
                   \E g \in Groups(mg) : Segmented[k] = AsBout(g)
            /\ (last.args[2] = 0 /\ last.args[3] <= 1) =>
                   /\ Len(Segmented) = Cardinality(Groups(mg))
                   /\ \A g \in Groups(mg) : Segmented[Rank(g)] = AsBout(g)

\* C11 witness: a call with thresholds that reject nothing joined two instants exactly
\* max_gap apart, cut at a gap of max_gap + 1 and put the lone instant beyond it in a
\* zero-width bout.
C11_Witness ==
    /\ SegmenterRan /\ last.args[2] = 0 /\ last.args[3] = 1
    /\ \E k \in 1..Len(Segmented) : Segmented[k][2] - Segmented[k][1] = last.args[1]
    /\ \E k \in 1..Len(Segmented) : Segmented[k][1] = Segmented[k][2]
    /\ \E i \in 1..(Len(activity) - 1) :
           activity[i + 1] - activity[i] = last.args[1] + 1

\* C12: a group becomes a bout exactly when it has at least min_count instants and
\* lasts at least min_duration, both bounds included; so with min_count <= 1 and
\* min_duration = 0 a lone instant is a bout of zero duration.
C12_EmittedAtThresholds ==
    SegmenterRan =>
        LET mg == last.args[1]
            AsBout(g) == <<activity[g[1]], activity[g[2]]>>
            Passes(g) == /\ g[2] - g[1] + 1 >= last.args[3]
                         /\ activity[g[2]] - activity[g[1]] >= last.args[2]
        IN  /\ Len(Segmented) = Cardinality({g \in Groups(mg) : Passes(g)})
            /\ \A g \in Groups(mg) :
                   Passes(g) <=> \E k \in 1..Len(Segmented) : Segmented[k] = AsBout(g)

\* C12 witness: activity_bouts kept a group of exactly min_count = 2 instants lasting
\* exactly min_duration = 1 and dropped a lone instant.
C12_Witness ==
    /\ last.op = "activity_bouts" /\ last.args[2] = 1 /\ last.args[3] = 2
    /\ \E k \in 1..Len(ret) : ret[k][2] - ret[k][1] = 1
    /\ \E g \in Groups(last.args[1]) :
           /\ g[2] = g[1] + 1 /\ activity[g[2]] - activity[g[1]] = 1
           /\ <<activity[g[1]], activity[g[2]]>> \in {ret[k] : k \in 1..Len(ret)}
    /\ \E g \in Groups(last.args[1]) : g[1] = g[2]

\* The bout example's events are the activity and activity_bouts ran with max_gap mg.
BoutExampleCall(mg) ==
    /\ activity = BoutExample.ts
    /\ last.op = "activity_bouts" /\ last.args[1] = mg

\* C13 as stated: for events at 01:30, 01:45 and 03:00, activity_bouts with max_gap =
\* 20m, the other thresholds left at their defaults, returns [01:30,01:45] and
\* [03:00,03:00], and with max_gap = 75m it returns [01:30,03:00].
C13_AsStated ==
    /\ (BoutExampleCall(FiveMinutes(0, 20))
            /\ last.args[2] = DefaultMinDuration /\ last.args[3] = DefaultMinCount)
        => ret = << <<FiveMinutes(1, 30), FiveMinutes(1, 45)>>,
                    <<FiveMinutes(3, 0), FiveMinutes(3, 0)>> >>
    /\ (BoutExampleCall(FiveMinutes(1, 15))
            /\ last.args[2] = DefaultMinDuration /\ last.args[3] = DefaultMinCount)
        => ret = << <<FiveMinutes(1, 30), FiveMinutes(3, 0)>> >>

\* C13: for events at 01:30, 01:45 and 03:00 and min_duration = 0, activity_bouts with
\* max_gap = 20m returns [01:30,01:45] and [03:00,03:00] when min_count = 1 and
\* [01:30,01:45] alone when min_count is the default 2; with max_gap = 75m it returns
\* the single bout [01:30,03:00] for either min_count.
C13_BoutExample ==
    /\ (BoutExampleCall(FiveMinutes(0, 20)) /\ last.args[2] = 0 /\ last.args[3] = 1)
        => ret = << <<FiveMinutes(1, 30), FiveMinutes(1, 45)>>,
                    <<FiveMinutes(3, 0), FiveMinutes(3, 0)>> >>
    /\ (BoutExampleCall(FiveMinutes(0, 20)) /\ last.args[2] = 0
            /\ last.args[3] = DefaultMinCount)
        => ret = << <<FiveMinutes(1, 30), FiveMinutes(1, 45)>> >>
    /\ (BoutExampleCall(FiveMinutes(1, 15)) /\ last.args[2] = 0
            /\ last.args[3] \in {1, DefaultMinCount})
        => ret = << <<FiveMinutes(1, 30), FiveMinutes(3, 0)>> >>

\* C13 witness: the call with max_gap = 20m and min_count = 1 returned two bouts, the
\* second of zero width.
C13_Witness ==
    /\ BoutExampleCall(FiveMinutes(0, 20)) /\ last.args[2] = 0 /\ last.args[3] = 1
    /\ Len(ret) = 2 /\ ret[2][1] = ret[2][2]

\* C14: discretize(step, bouts = False) returns one count per bin; the bins start at
\* start, each begins step after the one before, and the last ends at stop; the count
\* of a bin is the number of activity instants t with edge <= t < next edge, so an
\* instant on an edge belongs to the bin that starts there and every instant of the
\* activity is counted once.
C14_EventBinsAreHalfOpen ==
    (last.op = "discretize" /\ ~last.args[2]) =>
        LET stp == IF last.args[1] = None THEN step ELSE last.args[1]
            n == Len(ret)
            lo(i) == ret[i][1]
            hi(i) == IF i = n THEN stop ELSE ret[i + 1][1]
            In(i) == {j \in 1..Len(activity) : lo(i) <= activity[j] /\ activity[j] < hi(i)}
        IN  /\ n >= 1 /\ lo(1) = start
            /\ \A i \in 1..(n - 1) : lo(i + 1) = lo(i) + stp
            /\ lo(n) < stop /\ stop <= lo(n) + stp
            /\ \A i \in 1..n : ret[i][2] = Cardinality(In(i))
            /\ SumSeq([i \in 1..n |-> ret[i][2]]) = Len(activity)

\* C14 witness: with bins two ticks wide, an instant on the edge between the first and
\* the second bin was counted in the second, and the first bin holds an instant too.
C14_Witness ==
    /\ last.op = "discretize" /\ last.args = <<2, FALSE>>
    /\ Len(ret) >= 2
    /\ \E j \in 1..Len(activity) : activity[j] = ret[2][1]
    /\ ret[2][2] >= 1 /\ ret[1][2] >= 1

\* The bouts of the discretizer example: [01:30,03:00], [04:30,06:00], [16:00,27:00].
CoverageExampleBouts ==
    << <<HalfMinutes(1, 30), HalfMinutes(3, 0)>>, <<HalfMinutes(4, 30), HalfMinutes(6, 0)>>,
       <<HalfMinutes(16, 0), HalfMinutes(27, 0)>> >>

\* C15: discretize(step, bouts = True) gives every bin the summed overlap of all bouts
\* with the bin over the bin's width, a bout that spans several bins adding its part
\* to each; for the bouts [01:30,03:00], [04:30,06:00], [16:00,27:00] and step 5
\* minutes the bins start at 00:00, 05:00, ..., 25:00 and the coverage is
\* [0.4, 0.2, 0.0, 0.8, 1.0, 0.4], i.e. 2, 1, 0, 4, 5, 2 minutes of 5.
C15_CoverageIsOverlapOverWidth ==
    (last.op = "discretize" /\ last.args[2]) =>
        LET stp == IF last.args[1] = None THEN step ELSE last.args[1]
            n == Len(ret)
            lo(i) == ret[i][1]
            hi(i) == IF i = n THEN stop ELSE ret[i + 1][1]
            \* unit intervals [u, u + 1) of bin i that lie inside bout k
            Covered(i) == {x \in (1..Len(bouts)) \X (lo(i)..(hi(i) - 1)) :
                              bouts[x[1]][1] <= x[2] /\ x[2] + 1 <= bouts[x[1]][2]}
        IN  /\ \A i \in 1..n :
                   ret[i][2] = <<Cardinality(Covered(i)), hi(i) - lo(i)>>
            /\ (bouts = CoverageExampleBouts /\ last.args[1] = HalfMinutes(5, 0)
                    /\ start = 0 /\ stop = HalfMinutes(30, 0))
               => /\ [i \in 1..n |-> ret[i][1]] =
                        <<HalfMinutes(0, 0), HalfMinutes(5, 0), HalfMinutes(10, 0),
                          HalfMinutes(15, 0), HalfMinutes(20, 0), HalfMinutes(25, 0)>>
                  \* coverage in tenths: overlap / width = c / 10
                  /\ \A i \in 1..n :
                         10 * ret[i][2][1] = <<4, 2, 0, 8, 10, 4>>[i] * ret[i][2][2]
                  /\ [i \in 1..n |-> ret[i][2][1]] =
                        <<HalfMinutes(2, 0), HalfMinutes(1, 0), 0, HalfMinutes(4, 0),
                          HalfMinutes(5, 0), HalfMinutes(2, 0)>>

\* C15 witness: discretize with step 5 minutes ran on the example's three bouts.
C15_Witness ==
    /\ last.op = "discretize" /\ last.args = <<HalfMinutes(5, 0), TRUE>>
    /\ bouts = CoverageExampleBouts
    /\ start = 0 /\ stop = HalfMinutes(30, 0)
    /\ Len(ret) = 6 /\ ret[1][2] = <<HalfMinutes(2, 0), HalfMinutes(5, 0)>>

\* Total length of the night sub-intervals stored for day d (days from 1), in hours.
NightHours(d) == SumSeq([k \in 1..Len(night[d]) |-> night[d][k][2] - night[d][k][1]])

\* The analyzer was built with the shared night ('18:00', '06:00').
SharedDefaultNight == ~NoAnalyzer /\ night_arg = PerDay(<<18, 6>>, total_days)

\* C16 as stated: for the shared night ('18:00', '06:00') every day of the resolved
\* schedule, the first and the last included, holds exactly [0h,6h) and [18h,24h),
\* 12 hours of night.
C16_AsStated ==
    SharedDefaultNight =>
        \A d \in 1..total_days :
            /\ night[d] = << <<0, 6>>, <<18, 24>> >>
            /\ NightHours(d) = 12

\* C16: for the shared night ('18:00', '06:00') the first day of the resolved schedule
\* holds [18h,24h) only, 6 hours, and every later day holds exactly [0h,6h) and
\* [18h,24h), 12 hours: the night that starts at 18h on a day ends at 6h on the next
\* day, and the part that would fall after the last day is not stored.
C16_SharedNightPerDay ==
    SharedDefaultNight =>
        /\ Len(night) = total_days
        /\ night[1] = << <<18, 24>> >> /\ NightHours(1) = 6
        /\ \A d \in 2..total_days :
               /\ night[d] = << <<0, 6>>, <<18, 24>> >>
               /\ NightHours(d) = 12

\* C16 witness: a three-day analyzer with the shared night, after light_activity.
C16_Witness ==
    /\ SharedDefaultNight /\ total_days = 3
    /\ last.op = "light_activity"
    /\ NightHours(1) = 6 /\ NightHours(3) = 12

\* Number of boundaries in the night argument, over all days.
BoundaryCount == SumSeq([d \in 1..Len(night_arg) |-> Len(night_arg[d])])

\* C17: a per-day night argument is accepted whenever its boundaries are even in
\* number overall, whatever the count of a single day, and a start boundary left
\* unmatched on its day is closed by the next day's first boundary:
\* (['22'], ['04','20'], ['04','18','24']) resolves to [22h,24h) for day 0, [0h,4h) and
\* [20h,24h) for day 1, [0h,4h) and [18h,24h) for day 2. Every resolved schedule has
\* total_days entries, and every stored sub-interval lies within its day:
\* 0 <= start <= end <= 24h.
C17_OddDaysCarryOver ==
    /\ BoundaryCount % 2 = 0 => ~NoAnalyzer /\ total_days = Len(night_arg)
    /\ night_arg = << <<22>>, <<4, 20>>, <<4, 18, 24>> >> =>
           night = << << <<22, 24>> >>,
                      << <<0, 4>>, <<20, 24>> >>,
                      << <<0, 4>>, <<18, 24>> >> >>
    /\ Len(night) = total_days
    /\ \A d \in 1..Len(night) : \A k \in 1..Len(night[d]) :
           /\ 0 <= night[d][k][1] /\ night[d][k][1] <= night[d][k][2]
           /\ night[d][k][2] <= HoursPerDay

\* C17 witness: the analyzer built with (['22'], ['04','20'], ['04','18','24']), whose
\* days have 1, 2 and 3 boundaries, after light_activity.
C17_Witness ==
    /\ night_arg = << <<22>>, <<4, 20>>, <<4, 18, 24>> >>
    /\ ~NoAnalyzer /\ last.op = "light_activity"
    /\ Len(night) = 3 /\ Len(night[2]) = 2

\* The analyzer's attributes are all unset.
NothingBuilt ==
    /\ night = <<>> /\ mask = <<>> /\ day_indices = <<>> /\ timestamps = <<>>
    /\ activity = <<>> /\ bouts = <<>>
    /\ start = None /\ stop = None /\ total_days = 0 /\ days = 0
    /\ defaults = <<None, None, None, None, None>>

\* C18: a night argument with an odd number of boundaries overall makes the
\* constructor fail with InvalidNightSchedule; the failing call is the last thing that
\* happened and it left no analyzer, so no part of the schedule was resolved.
C18_OddBoundariesRaise ==
    BoundaryCount % 2 = 1 =>
        /\ last.op = "init" /\ ret = <<"InvalidNightSchedule">>
        /\ NothingBuilt

\* C18 witness: the constructor raised for three days of boundaries of which the
\* first two days pair up and the third leaves a start boundary open.
C18_Witness ==
    /\ NoAnalyzer
    /\ Len(night_arg) = 3
    /\ Len(night_arg[1]) + Len(night_arg[2]) = 2 /\ Len(night_arg[3]) % 2 = 1

\* The last call was given a parameter the method does not accept.
InvalidCall(call) ==
    \/ call.op = "filter_inactive" /\ call.args[1] < 0
    \/ /\ call.op \in {"activity_bouts", "update_bouts"}
       /\ (call.args[1] < 0 \/ call.args[2] < 0 \/ call.args[3] < 1)

PerDayOps == PerDayStatistics \cup {"light_activity", "daily_bouts"}

C21_SelectDatesHalfOpen ==
    (last.op = "select_dates" /\ ~last.args[3]) =>
        LET lo == last.args[1]
            hi == last.args[2]
            Wanted(t) == (lo = None \/ lo <= t) /\ (hi = None \/ t < hi)
        IN  /\ \A t \in Instants \cup {MaxT + 1, MaxT + 2} :
                   Occurrences(ret, t) = IF Wanted(t) THEN Occurrences(activity, t) ELSE 0
            /\ \A k \in 1..(Len(ret) - 1) : ret[k] <= ret[k + 1]
            /\ \A k \in 1..Len(ret) : mask[DayHolding(ret[k]) + 1]

\* C21 witness: select_dates(1, 2 days) on an activity with instants at both bounds
\* returned the one at the start and not the one at the stop.
C21_Witness ==
    /\ last.op = "select_dates" /\ last.args = <<1, 2 * DayLen, FALSE>>
    /\ Occurrences(activity, 1) > 0 /\ Occurrences(ret, 1) > 0
    /\ Occurrences(activity, 2 * DayLen) > 0 /\ Occurrences(ret, 2 * DayLen) = 0

\* C22: get_data(series, fields, start, stop) returns exactly the records with
\* start <= time < stop, in order: a record at start is in, a record at stop is out;
\* the result has an array for the time and one for each requested field, all of
\* the same length, entry k of each coming from the same record.
C22_GetDataHalfOpen ==
    last.op = "get_data" =>
        LET lo == last.args[2]
            hi == last.args[3]
            In(i) == (lo = None \/ lo <= db[i].time) /\ (hi = None \/ db[i].time < hi)
            picked == {i \in 1..Len(db) : In(i)}
            \* the record behind entry k: the k-th picked one
            Rec(k) == CHOOSE i \in picked : Cardinality({j \in picked : j <= i}) = k
        IN  /\ DOMAIN ret = {"time"} \cup last.args[1]
            /\ \A name \in DOMAIN ret :
                   /\ Len(ret[name]) = Cardinality(picked)
                   /\ \A k \in 1..Cardinality(picked) : ret[name][k] = db[Rec(k)][name]

\* C22 witness: get_data with both bounds and two fields on a series with a record at
\* the start time, which is returned, and one at the stop time, which is not.
C22_Witness ==
    /\ last.op = "get_data" /\ last.args = <<{"value", "key1"}, 1, DayLen>>
    /\ \E i \in 1..Len(db) : db[i].time = DayLen
    /\ Len(ret["time"]) >= 1 /\ ret["time"][1] = 1
    /\ \A k \in 1..Len(ret["time"]) : ret["time"][k] < DayLen
    /\ Len(ret["value"]) = Len(ret["time"]) /\ Len(ret["key1"]) = Len(ret["time"])

\* C23: a filter_inactive call that follows a filter_inactive call with the same
\* threshold leaves the mask, day_indices, the activity and the number of valid days
\* as the first call left them.
C23_FilterInactiveIdempotent ==
    [][(/\ last.op = "filter_inactive" /\ last'.op = "filter_inactive"
        /\ last'.args = last.args)
       => UNCHANGED <<mask, day_indices, activity, days>>]_vars

\* C23 witness: filter_inactive(2) has run and keeps some days and drops others that
\* hold events.
C23_Witness ==
    /\ last.op = "filter_inactive" /\ last.args = <<2>>
    /\ \E d \in 1..Len(mask) : mask[d]
    /\ \E d \in 1..Len(mask) : ~mask[d] /\ EventsInDay(d - 1) > 0
    /\ activity # timestamps

\* C24: an update_bouts call that follows an update_bouts call with the same max_gap,
\* min_duration and min_count leaves the cached bouts and the remembered thresholds
\* as the first call left them.
C24_UpdateBoutsIdempotent ==
    [][(/\ last.op = "update_bouts" /\ last'.op = "update_bouts"
        /\ last'.args = last.args)
       => UNCHANGED <<bouts, max_gap, min_duration, min_count>>]_vars

\* C24 witness: update_bouts(1, 0, 1) has run and cached bouts that differ from those
\* of the constructor's thresholds.
C24_Witness ==
    /\ last.op = "update_bouts" /\ last.args = <<1, 0, 1>>
    /\ bouts # <<>>
    /\ bouts # ActivityBouts(activity, DefaultMaxGap, DefaultMinDuration, DefaultMinCount)
    /\ bout_defaults = <<1, 0, 1>>

\* The stop before rounding: the one passed, or the start of the calendar day after
\* the last instant of the timeseries.
RequestedOrDefaultStop ==
    IF req_stop # None THEN req_stop
    ELSE (timeseries[Len(timeseries)] \div DayLen) * DayLen + DayLen

\* C25: a default start is the start of the calendar day of the first instant of the
\* timeseries; stop is the smallest start + k * day that is not below the stop before
\* rounding, so a span that is whole days already gets no extra day.
C25_WindowBoundsMinimal ==
    start # None =>
        /\ req_start = None =>
               /\ start % DayLen = 0
               /\ start <= timeseries[1] /\ timeseries[1] < start + DayLen
        /\ req_start # None => start = req_start
        /\ (stop - start) % DayLen = 0
        /\ stop >= RequestedOrDefaultStop
        /\ stop - DayLen < RequestedOrDefaultStop
        /\ (RequestedOrDefaultStop - start) % DayLen = 0 => stop = RequestedOrDefaultStop

\* C25 witness: default start at a later calendar day than day 0, an explicit stop
\* that is whole days from it and is kept as passed.
C25_Witness ==
    /\ req_start = None /\ req_stop # None
    /\ start > 0 /\ stop = req_stop /\ total_days = 1
    /\ timeseries[1] > start

\* The event counts of the bins of the valid days that the last statistic consumed.
StatisticSignal == Counts(ValidRows(Discretize(EffectiveStep(last.args[1]), FALSE)))

Constant(x) == \A i, j \in 1..Len(x) : x[i] = x[j]

\* C26 as stated: with valid days, interdaily_stability is a ratio in [0, 1] and is 1
\* for a constant signal; the total intradaily_variability is a ratio >= 0 and is 0 for
\* a constant signal.
C26_AsStated ==
    days > 0 =>
        /\ last.op = "interdaily_stability" =>
               /\ ret[2] > 0 /\ 0 <= ret[1] /\ ret[1] <= ret[2]
               /\ Constant(StatisticSignal) => ret[1] = ret[2]
        /\ last.op = "intradaily_variability" =>
               /\ ret[2][2] > 0 /\ ret[2][1] >= 0
               /\ Constant(StatisticSignal) => ret[2][1] = 0

\* With a signal that is not constant both ratios are defined, interdaily stability
\* lies in [0, 1] and intradaily variability is not negative.
VaryingSignalInRange ==
    (/\ last.op \in {"interdaily_stability", "intradaily_variability"}
     /\ days > 0 /\ ~Constant(StatisticSignal)) =>
        /\ last.op = "interdaily_stability" =>
               ret[2] > 0 /\ 0 <= ret[1] /\ ret[1] <= ret[2]
        /\ last.op = "intradaily_variability" =>
               ret[2][2] > 0 /\ ret[2][1] >= 0

\* A constant signal over valid days gives 0 / 0 for both statistics.
ConstantSignalUndefined ==
    (/\ last.op \in {"interdaily_stability", "intradaily_variability"}
     /\ days > 0 /\ Constant(StatisticSignal)) =>
        /\ last.op = "interdaily_stability" => ret = <<0, 0>>
        /\ last.op = "intradaily_variability" => ret[2] = <<0, 0>>

\* A bout set for max_gap mg: every bout starts no later than it ends, and each bout
\* starts more than mg after the one before it ends.
OrderedApart(bs, mg) ==
    /\ \A k \in 1..Len(bs) : bs[k][1] <= bs[k][2]
    /\ \A k \in 1..(Len(bs) - 1) :
           bs[k][2] < bs[k + 1][1] /\ bs[k + 1][1] - bs[k][2] > mg

\* C27: the bouts returned by activity_bouts are ordered, disjoint and more than the
\* max_gap of the call apart, and so are the cached bouts for the remembered max_gap,
\* in every state.
C27_BoutsOrderedAndApart ==
    /\ OrderedApart(bouts, max_gap)
    /\ SegmenterRan => OrderedApart(Segmented, last.args[1])

\* C27 witness: a call gave two bouts exactly max_gap + 1 apart, one of them lasting.
C27_Witness ==
    /\ SegmenterRan /\ Len(Segmented) >= 2
    /\ Segmented[2][1] - Segmented[1][2] = last.args[1] + 1
    /\ \E k \in 1..Len(Segmented) : Segmented[k][1] < Segmented[k][2]

\* C28: discretize(step) returns ceil((stop - start) / step) bins; bin i starts at
\* start + (i - 1) * step and ends where the next one starts, the last one at stop
\* exactly, so it is shorter than step when step does not divide stop - start, and
\* every bin lies inside [start, stop].
C28_BinsEndAtStop ==
    last.op = "discretize" =>
        LET stp == IF last.args[1] = None THEN step ELSE last.args[1]
            n == Len(ret)
            lo(i) == ret[i][1]
            hi(i) == IF i = n THEN stop ELSE ret[i + 1][1]
        IN  /\ n * stp >= stop - start /\ (n - 1) * stp < stop - start
            /\ \A i \in 1..n :
                   /\ lo(i) = start + (i - 1) * stp
                   /\ start <= lo(i) /\ lo(i) < hi(i) /\ hi(i) <= stop
            /\ last.args[2] =>
                   \A i \in 1..n :
                       ret[i][2][2] = (IF i < n THEN stp ELSE stop - lo(n))
            /\ ~last.args[2] =>
                   ret[n][2] = Cardinality({j \in 1..Len(activity) : activity[j] >= lo(n)})

\* C28 witness: a window of two days of 2 discretized with step 3 has two bins, the
\* second one of width 1.
C28_Witness ==
    /\ last.op = "discretize" /\ last.args = <<3, TRUE>>
    /\ stop - start = 4 /\ Len(ret) = 2
    /\ ret[2][1] = start + 3 /\ ret[2][2][2] = 1

StaleBoutsAfterFilter ==
    /\ last.op = "filter_inactive"
    /\ \E k \in 1..Len(bouts) : ~mask[DayOf(bouts[k][1], start) + 1]

\* C30: the event counts of discretize(step, bouts = False) sum to the number of
\* instants of the activity and every instant lies in exactly one bin; with
\* bouts = True every bin's overlap is between 0 and its width, and the overlaps sum
\* to the total length of the cached bouts inside [start, stop).
C30_DiscretizeConserves ==
    last.op = "discretize" =>
        LET n == Len(ret)
            lo(i) == ret[i][1]
            hi(i) == IF i = n THEN stop ELSE ret[i + 1][1]
            Clipped(k) == Max(0, Min(bouts[k][2], stop) - Max(bouts[k][1], start))
        IN  IF last.args[2]
            THEN /\ \A i \in 1..n :
                        /\ ret[i][2][2] > 0
                        /\ 0 <= ret[i][2][1] /\ ret[i][2][1] <= ret[i][2][2]
                 /\ SumSeq([i \in 1..n |-> ret[i][2][1]]) =
                        SumSeq([k \in 1..Len(bouts) |-> Clipped(k)])
            ELSE /\ SumSeq([i \in 1..n |-> ret[i][2]]) = Len(activity)
                 /\ \A j \in 1..Len(activity) :
                        Cardinality({i \in 1..n : lo(i) <= activity[j]
                                                    /\ activity[j] < hi(i)}) = 1
                 /\ \A i \in 1..n : ret[i][2] >= 0

\* C30 witness: discretize with step 3 over a window of 4 counted an instant equal to
\* start and an instant in the truncated last bin.
C30_Witness ==
    /\ last.op = "discretize" /\ last.args = <<3, FALSE>>
    /\ stop - start = 4 /\ Len(ret) = 2
    /\ ret[1][2] >= 1 /\ ret[2][2] >= 1
    /\ activity[1] = start /\ activity[Len(activity)] = start + 3
====
